---- MODULE Spec2Model ----
(***************************************************************************)
(* The GET /partner-dashboard/offers handler of src/index.js: query        *)
(* validation, the upstream list-offers call, the Promise.all fan-out of   *)
(* per-offer detail lookups and the response that is sent.                 *)
(*                                                                         *)
(* One request is followed from arrival to its response.  Every await of   *)
(* the handler is a suspension point and so a separate step; everything    *)
(* between two awaits runs to completion in one step.                      *)
(*                                                                         *)
(* A JavaScript value is a record [t |-> type tag, v |-> pieces], where    *)
(* pieces is a sequence of strings (the text of the value; a caller's      *)
(* affiliate_id is split into single characters).  A JavaScript object is  *)
(* a function from property names to values.                               *)
(***************************************************************************)
EXTENDS Integers, Sequences, FiniteSets, TLC

\* ---------------------------------------------------------------- bounds
MaxOffers == 2
MaxAffLen == 2

\* ------------------------------------------------------ JavaScript values
JsUndefined == [t |-> "undefined", v |-> <<>>]
JsString(s) == [t |-> "string", v |-> s]
JsNumber(n) == [t |-> "number", v |-> <<n>>]

\* ToBoolean, as used by !x, x && y and x || y
Truthy(x) ==
    /\ x.t # "undefined"
    /\ x.t # "null"
    /\ ~(x.t = "string" /\ x.v = <<>>)
    /\ ~(x.t = "number" /\ x.v \in {<<"0">>, <<"NaN">>})
    /\ ~(x.t = "boolean" /\ x.v = <<"false">>)

\* a || b
JsOr(a, b) == IF Truthy(a) THEN a ELSE b

\* obj.f : a missing property reads as undefined
Get(obj, f) == IF f \in DOMAIN obj THEN obj[f] ELSE JsUndefined

\* String.prototype.includes for a one-character needle
Includes(s, c) == \E i \in 1..Len(s.v) : s.v[i] = c

\* ------------------------------------------------------------ input sets
AffChars == {"a", "{"}

RECURSIVE SeqsUpTo(_, _)
SeqsUpTo(S, n) ==
    IF n = 0 THEN {<<>>}
    ELSE LET shorter == SeqsUpTo(S, n - 1)
         IN  shorter \cup {Append(s, c) : s \in shorter, c \in S}

AffiliateIds == {JsUndefined} \cup {JsString(s) : s \in SeqsUpTo(AffChars, MaxAffLen)}

Types == {JsUndefined, JsString(<<>>), JsString(<<"top">>), JsString(<<"latest">>),
          JsString(<<"bogus">>)}

Queries == [type : Types, affiliate_id : AffiliateIds]

\* offers of the upstream list: the second one already has list-level
\* default_payout and currency fields
Offer1 == ("network_offer_id" :> JsNumber("101")) @@ ("name" :> JsString(<<"Alpha">>))
Offer2 == ("network_offer_id" :> JsNumber("102")) @@ ("name" :> JsString(<<"Beta">>))
          @@ ("default_payout" :> JsNumber("3")) @@ ("currency" :> JsString(<<"GBP">>))
OfferPool == {Offer1, Offer2}

OfferLists == UNION {[1..n -> OfferPool] : n \in 0..MaxOffers}

\* bodies of the upstream list call: with and without the offers field
NoOffersField == [f \in {} |-> <<>>]
ListBodies == {NoOffersField} \cup {("offers" :> l) : l \in OfferLists}

\* bodies of the upstream detail call
Detail1 == ("default_payout" :> JsNumber("7")) @@ ("currency" :> JsString(<<"USD">>))
Detail2 == ("default_payout" :> JsNumber("0")) @@ ("currency" :> JsString(<<"EUR">>))
Detail3 == [f \in {} |-> JsUndefined]
Detail4 == ("default_payout" :> JsNumber("9"))
DetailBodies == {Detail1, Detail2, Detail3, Detail4}

ErrorStatuses == {404, 500}
ErrorTexts == {<<"upstream failure">>, <<>>}
RejectKinds == {"network", "timeout"}
NodeEnvs == {"development", "production"}

\* ----------------------------------------------------------------- state
VARIABLES
    NODE_ENV,     \* process.env.NODE_ENV
    pc,           \* where the handler is suspended
    query,        \* req.query
    url,          \* the list-offers URL
    listCalls,    \* number of list-offers calls issued
    response,     \* what the upstream answered to the list call
    offers,       \* data.offers || []
    det,          \* one record per offers.map callback
    values,       \* the result array Promise.all fills
    order,        \* positions of the callbacks, in the order they returned
    resStatus,    \* HTTP status sent (0: nothing sent yet)
    resBody       \* JSON body sent

vars == <<NODE_ENV, pc, query, url, listCalls, response, offers, det, values,
          order, resStatus, resBody>>

NoResponse == [kind |-> "none", status |-> 0, text |-> <<>>]

Init ==
    /\ NODE_ENV \in NodeEnvs
    /\ pc = "idle"
    /\ query = [type |-> JsUndefined, affiliate_id |-> JsUndefined]
    /\ url = <<>>
    /\ listCalls = 0
    /\ response = NoResponse
    /\ offers = <<>>
    /\ det = <<>>
    /\ values = <<>>
    /\ order = <<>>
    /\ resStatus = 0
    /\ resBody = <<>>

\* ------------------------------------------------------------ validation
\* Variant: a missing affiliate_id is rejected like a malformed one
Validate_ProbeRejected(q) ==
    IF ~Truthy(q.affiliate_id) \/ Includes(q.affiliate_id, "{") THEN "bad_affiliate_id"
    ELSE IF Truthy(q.type) /\ q.type \notin {JsString(<<"top">>), JsString(<<"latest">>)}
         THEN "bad_type"
    ELSE "valid"

\* Variant: the type check comes before the affiliate_id content check
Validate_TypeFirst(q) ==
    IF ~Truthy(q.affiliate_id) THEN "probe"
    ELSE IF Truthy(q.type) /\ q.type \notin {JsString(<<"top">>), JsString(<<"latest">>)}
         THEN "bad_type"
    ELSE IF Includes(q.affiliate_id, "{") THEN "bad_affiliate_id"
    ELSE "valid"

\* the three checks before the first upstream call, in the order of the code
Validate(q) ==
    IF ~Truthy(q.affiliate_id) THEN "probe"
    ELSE IF Includes(q.affiliate_id, "{") THEN "bad_affiliate_id"
    ELSE IF Truthy(q.type) /\ q.type \notin {JsString(<<"top">>), JsString(<<"latest">>)}
         THEN "bad_type"
    ELSE "valid"

ProbeBody ==
    [status |-> "success", message |-> "Partner dashboard backend is operational"]

BadAffiliateIdBody(affiliate_id) ==
    [error |-> "Invalid request",
     message |-> "Valid affiliate_id is required",
     details |-> [received |-> affiliate_id,
                  expected |-> "Non-empty string without special characters"]]

BadTypeBody ==
    [error |-> "Invalid request",
     message |-> "Type must be either \"top\" or \"latest\" if provided"]

\* -------------------------------------------------------------- the URLs
ListUrlBase == <<"https://api.eflow.team/v1/networks/offers?affiliate_id=">>
ListUrlFixed == <<"&limit=10&status=active&visibility=public">>
SortTop == <<"&sort_by=payout&sort_direction=desc">>
SortLatest == <<"&sort_by=created_at&sort_direction=desc">>

\* Variant: the two sort clauses exchanged
SortClause_Swapped(type) ==
    IF type = JsString(<<"top">>) THEN SortLatest
    ELSE IF type = JsString(<<"latest">>) THEN SortTop
    ELSE <<>>

SortClause(type) ==
    IF type = JsString(<<"top">>) THEN SortTop
    ELSE IF type = JsString(<<"latest">>) THEN SortLatest
    ELSE <<>>

ListUrl(q) == ListUrlBase \o q.affiliate_id.v \o ListUrlFixed \o SortClause(q.type)

DetailUrl(offer, affiliate_id) ==
    <<"https://api.eflow.team/v1/networks/offers/">>
        \o Get(offer, "network_offer_id").v
        \o <<"?affiliate_id=">> \o affiliate_id.v

\* -------------------------------------------------------- response bodies
\* Variant: the upstream status is passed through
ListErrorStatus_PassThrough(resp) == resp.status

\* res.status(502)
ListErrorStatus(resp) == 502

BadGatewayBody(errorText) ==
    [error |-> "Bad Gateway",
     message |-> "Failed to fetch offers from Everflow",
     details |-> errorText]

InternalErrorBody(env) ==
    IF env = "development"
    THEN [error |-> "Internal Server Error",
          message |-> "An unexpected error occurred",
          details |-> "err.stack"]
    ELSE [error |-> "Internal Server Error",
          message |-> "An unexpected error occurred"]

SuccessBody(enrichedOffers) ==
    [status |-> "success",
     data |-> [offers |-> enrichedOffers,
               count |-> Len(enrichedOffers),
               _metadata |-> [source |-> "Everflow API",
                             enrichment |-> "payout_and_currency",
                             timestamp |-> "new Date().toISOString()"]]]

\* ------------------------------------------------------------ enrichment
\* { ...offer, default_payout: d.default_payout || 'N/A', currency: d.currency || '' }
Merge(offer, detailData) ==
    [f \in DOMAIN offer \cup {"default_payout", "currency"} |->
        IF f = "default_payout"
            THEN JsOr(Get(detailData, "default_payout"), JsString(<<"N/A">>))
        ELSE IF f = "currency"
            THEN JsOr(Get(detailData, "currency"), JsString(<<>>))
        ELSE offer[f]]

\* a callback of offers.map, run up to its await of fetch(detailUrl)
EmptyObject == [f \in {} |-> JsUndefined]
StartCallback(offer, affiliate_id) ==
    [pc |-> "await_fetch", calls |-> 1, detailUrl |-> DetailUrl(offer, affiliate_id),
     outcome |-> "pending", data |-> EmptyObject, offer |-> offer,
     result |-> EmptyObject]

\* offers.map(async (offer) => ...): every callback is started, in order,
\* before Promise.all is awaited
LaunchAll(list, affiliate_id) ==
    [i \in 1..Len(list) |-> StartCallback(list[i], affiliate_id)]

\* if (!detailRes.ok) return offer;
ReturnNotOk(d) ==
    [d EXCEPT !.pc = "returned", !.outcome = "not_ok", !.result = d.offer]

\* Variant: a failed lookup yields the defaults of the merge
ReturnFromCatch_Defaults(d, kind) ==
    [d EXCEPT !.pc = "returned", !.outcome = kind, !.result = Merge(d.offer, EmptyObject)]

\* Variant: a failed lookup is issued a second time
ReturnFromCatch_Retry(d, kind) ==
    IF d.calls < 2
    THEN [d EXCEPT !.pc = "await_fetch", !.calls = d.calls + 1]
    ELSE [d EXCEPT !.pc = "returned", !.outcome = kind, !.result = d.offer]

\* catch (err) { ...; return offer; }
ReturnFromCatch(d, kind) ==
    [d EXCEPT !.pc = "returned", !.outcome = kind, !.result = d.offer]

\* return { ...offer, default_payout: ..., currency: ... };
ReturnMerged(d, detailData) ==
    [d EXCEPT !.pc = "returned", !.outcome = "ok", !.data = detailData,
              !.result = Merge(d.offer, detailData)]

\* Promise.all: the value of the promise at position index goes to position
\* index of the result array
EmptySlot == [filled |-> FALSE, value |-> EmptyObject]
\* Variant: values are collected in the order the promises resolve
PromiseAllStore_Push(vals, index, value) ==
    LET k == CHOOSE j \in 1..Len(vals) :
                 /\ ~vals[j].filled
                 /\ \A h \in 1..(j - 1) : vals[h].filled
    IN  [vals EXCEPT ![k] = [filled |-> TRUE, value |-> value]]
PromiseAllStore(vals, index, value) ==
    [vals EXCEPT ![index] = [filled |-> TRUE, value |-> value]]

\* Variant: the join resolves with the first promise that resolves
AllResolved_Any(vals) == \E i \in 1..Len(vals) : vals[i].filled

\* Promise.all resolves when every promise has resolved
AllResolved(vals) == \A i \in 1..Len(vals) : vals[i].filled

\* ---------------------------------------------------------------- actions
Respond(status, body) ==
    /\ resStatus' = status
    /\ resBody' = body
    /\ pc' = "done"

\* lines 50-55: no affiliate_id
StatusProbe ==
    /\ pc = "idle"
    /\ \E q \in Queries :
        /\ Validate(q) = "probe"
        /\ query' = q
        /\ Respond(200, ProbeBody)
    /\ UNCHANGED <<NODE_ENV, url, listCalls, response, offers, det, values, order>>

\* lines 58-67
RejectAffiliateId ==
    /\ pc = "idle"
    /\ \E q \in Queries :
        /\ Validate(q) = "bad_affiliate_id"
        /\ query' = q
        /\ Respond(400, BadAffiliateIdBody(q.affiliate_id))
    /\ UNCHANGED <<NODE_ENV, url, listCalls, response, offers, det, values, order>>

\* lines 69-74
RejectType ==
    /\ pc = "idle"
    /\ \E q \in Queries :
        /\ Validate(q) = "bad_type"
        /\ query' = q
        /\ Respond(400, BadTypeBody)
    /\ UNCHANGED <<NODE_ENV, url, listCalls, response, offers, det, values, order>>

\* lines 76-91: build the URL and issue the list call
IssueListCall ==
    /\ pc = "idle"
    /\ \E q \in Queries :
        /\ Validate(q) = "valid"
        /\ query' = q
        /\ url' = ListUrl(q)
    /\ listCalls' = listCalls + 1
    /\ pc' = "await_list_fetch"
    /\ UNCHANGED <<NODE_ENV, response, offers, det, values, order, resStatus, resBody>>

\* the list fetch rejects (network error or timeout): outer catch, line 148
ListFetchReject ==
    /\ pc = "await_list_fetch"
    /\ \E k \in RejectKinds : response' = [kind |-> k, status |-> 0, text |-> <<>>]
    /\ Respond(500, InternalErrorBody(NODE_ENV))
    /\ UNCHANGED <<NODE_ENV, query, url, listCalls, offers, det, values, order>>

\* the list fetch resolves with a non-success status: line 93, await text()
ListFetchNotOk ==
    /\ pc = "await_list_fetch"
    /\ \E s \in ErrorStatuses : response' = [kind |-> "not_ok", status |-> s, text |-> <<>>]
    /\ pc' = "await_list_text"
    /\ UNCHANGED <<NODE_ENV, query, url, listCalls, offers, det, values, order, resStatus, resBody>>

\* lines 94-100
ListTextResolve ==
    /\ pc = "await_list_text"
    /\ \E errorText \in ErrorTexts :
        /\ response' = [response EXCEPT !.text = errorText]
        /\ Respond(ListErrorStatus(response), BadGatewayBody(errorText))
    /\ UNCHANGED <<NODE_ENV, query, url, listCalls, offers, det, values, order>>

\* the list fetch resolves with a success status: line 103, await json()
ListFetchOk ==
    /\ pc = "await_list_fetch"
    /\ response' = [kind |-> "ok", status |-> 200, text |-> <<>>]
    /\ pc' = "await_list_json"
    /\ UNCHANGED <<NODE_ENV, query, url, listCalls, offers, det, values, order, resStatus, resBody>>

\* response.json() rejects on a malformed body: outer catch
ListJsonReject ==
    /\ pc = "await_list_json"
    /\ response' = [response EXCEPT !.kind = "malformed"]
    /\ Respond(500, InternalErrorBody(NODE_ENV))
    /\ UNCHANGED <<NODE_ENV, query, url, listCalls, offers, det, values, order>>

\* lines 103-118: the offer list, and every map callback up to its fetch
ListJsonResolve ==
    /\ pc = "await_list_json"
    /\ \E data \in ListBodies :
        LET list == IF "offers" \in DOMAIN data THEN data.offers ELSE <<>>
        IN  /\ offers' = list
            /\ det' = LaunchAll(list, query.affiliate_id)
            /\ values' = [i \in 1..Len(list) |-> EmptySlot]
    /\ pc' = "await_all"
    /\ UNCHANGED <<NODE_ENV, query, url, listCalls, response, order, resStatus, resBody>>

\* a callback returns: its promise resolves and Promise.all records the value
Return(i, d) ==
    /\ det' = [det EXCEPT ![i] = d]
    /\ IF d.pc = "returned"
       THEN /\ values' = PromiseAllStore(values, i, d.result)
            /\ order' = Append(order, i)
       ELSE UNCHANGED <<values, order>>

\* the detail fetch rejects: catch, lines 128-131
DetailFetchReject(i) ==
    /\ pc = "await_all"
    /\ det[i].pc = "await_fetch"
    /\ \E k \in RejectKinds : Return(i, ReturnFromCatch(det[i], k))
    /\ UNCHANGED <<NODE_ENV, pc, query, url, listCalls, response, offers, resStatus, resBody>>

\* the detail fetch resolves with a non-success status: line 120
DetailFetchNotOk(i) ==
    /\ pc = "await_all"
    /\ det[i].pc = "await_fetch"
    /\ Return(i, ReturnNotOk(det[i]))
    /\ UNCHANGED <<NODE_ENV, pc, query, url, listCalls, response, offers, resStatus, resBody>>

\* the detail fetch resolves with a success status: line 122, await json()
DetailFetchOk(i) ==
    /\ pc = "await_all"
    /\ det[i].pc = "await_fetch"
    /\ det' = [det EXCEPT ![i].pc = "await_json"]
    /\ UNCHANGED <<NODE_ENV, pc, query, url, listCalls, response, offers, values,
                   order, resStatus, resBody>>

\* detailRes.json() rejects on a malformed body: catch, lines 128-131
DetailJsonReject(i) ==
    /\ pc = "await_all"
    /\ det[i].pc = "await_json"
    /\ Return(i, ReturnFromCatch(det[i], "malformed"))
    /\ UNCHANGED <<NODE_ENV, pc, query, url, listCalls, response, offers, resStatus, resBody>>

\* lines 122-127: the merge
DetailJsonResolve(i) ==
    /\ pc = "await_all"
    /\ det[i].pc = "await_json"
    /\ \E detailData \in DetailBodies :
        Return(i, ReturnMerged(det[i], detailData))
    /\ UNCHANGED <<NODE_ENV, pc, query, url, listCalls, response, offers, resStatus, resBody>>

\* Promise.all has resolved: lines 135-146
Join ==
    /\ pc = "await_all"
    /\ AllResolved(values)
    /\ Respond(200, SuccessBody([i \in 1..Len(values) |-> values[i].value]))
    /\ UNCHANGED <<NODE_ENV, query, url, listCalls, response, offers, det, values, order>>

Next ==
    \/ StatusProbe
    \/ RejectAffiliateId
    \/ RejectType
    \/ IssueListCall
    \/ ListFetchReject
    \/ ListFetchNotOk
    \/ ListTextResolve
    \/ ListFetchOk
    \/ ListJsonReject
    \/ ListJsonResolve
    \/ \E i \in 1..Len(det) : DetailFetchReject(i)
    \/ \E i \in 1..Len(det) : DetailFetchNotOk(i)
    \/ \E i \in 1..Len(det) : DetailFetchOk(i)
    \/ \E i \in 1..Len(det) : DetailJsonReject(i)
    \/ \E i \in 1..Len(det) : DetailJsonResolve(i)
    \/ Join

Spec == Init /\ [][Next]_vars

\* ------------------------------------------------------------ properties
NA == JsString(<<"N/A">>)
EmptyString == JsString(<<>>)
Enriched == {"default_payout", "currency"}
Pieces(u) == {u[i] : i \in 1..Len(u)}

\* the success response of the enrichment pipeline has been sent
SuccessSent == pc = "done" /\ response.kind = "ok" /\ resStatus = 200
Positions == 1..Len(offers)
FailedOutcomes == {"network", "timeout", "not_ok", "malformed"}

\* C1: with N offers of which M lookups succeed, whatever the order in which
\* the lookups complete, the offers array of the response has length N,
\* position i comes from list offer i, the offers with a successful lookup
\* carry default_payout and currency derived from their own detail, and the
\* others are identical to their list form.
C1_OrderAndPartialEnrichment ==
    SuccessSent =>
        LET out == resBody.data.offers
        IN  /\ Len(out) = Len(offers)
            /\ resBody.data.count = Len(offers)
            /\ \A i \in Positions :
                IF det[i].outcome = "ok"
                THEN /\ DOMAIN out[i] = DOMAIN offers[i] \cup Enriched
                     /\ \A f \in DOMAIN offers[i] \ Enriched : out[i][f] = offers[i][f]
                     /\ out[i]["default_payout"] \in {Get(det[i].data, "default_payout"), NA}
                     /\ out[i]["currency"] \in {Get(det[i].data, "currency"), EmptyString}
                ELSE /\ det[i].outcome \in FailedOutcomes
                     /\ out[i] = offers[i]

\* two different offers, the second lookup completes first and fails, the
\* first succeeds
C1_Witness ==
    /\ SuccessSent
    /\ Len(offers) = 2
    /\ offers[1] # offers[2]
    /\ order = <<2, 1>>
    /\ det[1].outcome = "ok"
    /\ det[2].outcome = "timeout"

\* C2 as stated: an offer whose detail lookup threw a network error is in
\* the output with default_payout "N/A" and currency "", and the status is 200.
C2_NetworkErrorGivesDefaults ==
    (pc = "done" /\ response.kind = "ok") =>
        \A i \in Positions :
            det[i].outcome = "network" =>
                /\ resStatus = 200
                /\ Get(resBody.data.offers[i], "default_payout") = NA
                /\ Get(resBody.data.offers[i], "currency") = EmptyString

\* C2 amended: an offer whose detail lookup threw a network error is in the
\* output exactly as the list call returned it, and the status is 200.
C2_NetworkErrorLeavesOfferUnchanged ==
    (pc = "done" /\ response.kind = "ok") =>
        \A i \in Positions :
            det[i].outcome = "network" =>
                /\ resStatus = 200
                /\ resBody.status = "success"
                /\ resBody.data.offers[i] = offers[i]

C2_Witness ==
    /\ SuccessSent
    /\ \E i \in Positions :
        /\ det[i].outcome = "network"
        /\ offers[i] = Offer1
        /\ "default_payout" \notin DOMAIN resBody.data.offers[i]

\* C3 as stated: with an affiliate_id that is present and has no '{', every
\* type that is present and is not "top" or "latest", the empty string
\* included, is answered 400 with the invalid-type message and without any
\* upstream call.
C3_EveryOtherTypeRejected ==
    (/\ pc # "idle"
     /\ Truthy(query.affiliate_id)
     /\ ~Includes(query.affiliate_id, "{")
     /\ query.type \notin {JsUndefined, JsString(<<"top">>), JsString(<<"latest">>)}) =>
        /\ pc = "done"
        /\ resStatus = 400
        /\ resBody = BadTypeBody
        /\ listCalls = 0

C5_ProbeWithoutAffiliateId ==
    (pc # "idle" /\ query.affiliate_id = JsUndefined) =>
        /\ pc = "done"
        /\ resStatus = 200
        /\ resBody = ProbeBody
        /\ listCalls = 0
        /\ det = <<>>

C5_Witness ==
    /\ pc = "done"
    /\ query.affiliate_id = JsUndefined
    /\ query.type = JsString(<<"bogus">>)
    /\ resStatus = 200

\* C6: an affiliate_id containing '{' is answered 400 with the
\* invalid-affiliate_id message whether type is absent, valid or invalid.
C6_BraceRejectedBeforeType ==
    (pc # "idle" /\ Includes(query.affiliate_id, "{")) =>
        /\ pc = "done"
        /\ resStatus = 400
        /\ resBody = BadAffiliateIdBody(query.affiliate_id)
        /\ listCalls = 0

C6_Witness ==
    /\ pc = "done"
    /\ query.affiliate_id = JsString(<<"a", "{">>)
    /\ query.type = JsString(<<"bogus">>)
    /\ resStatus = 400

\* C7: the list URL starts with the endpoint and the affiliate id, carries
\* limit=10, status=active and visibility=public, and ends with the sort
\* clause of the type: payout for top, created_at for latest, none otherwise.
C7_SortClauseFollowsType ==
    listCalls > 0 =>
        LET n == Len(query.affiliate_id.v)
        IN  /\ SubSeq(url, 1, 1) = ListUrlBase
            /\ SubSeq(url, 2, n + 1) = query.affiliate_id.v
            /\ SubSeq(url, n + 2, n + 2) = ListUrlFixed
            /\ (query.type = JsString(<<"top">>)) =>
                   /\ Len(url) = n + 3
                   /\ SubSeq(url, n + 3, n + 3) = SortTop
            /\ (query.type = JsString(<<"latest">>)) =>
                   /\ Len(url) = n + 3
                   /\ SubSeq(url, n + 3, n + 3) = SortLatest
            /\ (query.type \notin {JsString(<<"top">>), JsString(<<"latest">>)}) =>
                   /\ Len(url) = n + 2
                   /\ Pieces(url) \cap (Pieces(SortTop) \cup Pieces(SortLatest)) = {}

C7_Witness ==
    /\ listCalls = 1
    /\ query.type = JsString(<<"latest">>)
    /\ query.affiliate_id = JsString(<<"a", "a">>)

\* every callback of the map has issued its lookup, for its own offer
C8_AllLaunched ==
    /\ Len(det) = Len(offers)
    /\ \A j \in Positions : det[j].calls = 1 /\ det[j].offer = offers[j]
\* no response has been sent while some lookup has not returned
C8_NoResponseWhileInFlight ==
    (\E i \in Positions : det[i].pc # "returned") => (pc = "await_all" /\ resStatus = 0)
\* the step in which a lookup fails changes no other lookup and sends nothing
C8_FailureLeavesOthersAlone ==
    \A i \in Positions :
        (det[i].pc # "returned" /\ det'[i].pc = "returned" /\ det'[i].outcome # "ok") =>
            /\ \A j \in Positions \ {i} : det'[j] = det[j]
            /\ pc' = pc
            /\ resStatus' = resStatus
\* C8: once the list call has succeeded every lookup is launched before any
\* of them completes, no response is sent while a lookup is in flight, and a
\* lookup that fails leaves the other lookups and the response as they were.
C8_JoinAfterAllLookups ==
    /\ [](pc \in {"await_all", "done"} /\ response.kind = "ok" => C8_AllLaunched)
    /\ []C8_NoResponseWhileInFlight
    /\ [][C8_FailureLeavesOthersAlone]_vars

\* a lookup has failed while another one is still in flight
C8_Witness ==
    /\ pc = "await_all"
    /\ Len(offers) = 2
    /\ det[1].pc = "returned"
    /\ det[1].outcome = "network"
    /\ det[2].pc = "await_json"
    /\ resStatus = 0

\* C9 as stated: after a successful lookup the offer keeps its other fields,
\* default_payout is the detail's value whenever the detail has the field
\* (0 included) and "N/A" only when it is missing, and likewise currency
\* with "".
C9_PresentFieldIsCopied ==
    SuccessSent =>
        \A i \in Positions :
            det[i].outcome = "ok" =>
                LET out == resBody.data.offers[i]
                    d == det[i].data
                IN  /\ DOMAIN out = DOMAIN offers[i] \cup Enriched
                    /\ \A f \in DOMAIN offers[i] \ Enriched : out[f] = offers[i][f]
                    /\ out["default_payout"] =
                           IF "default_payout" \in DOMAIN d THEN d["default_payout"] ELSE NA
                    /\ out["currency"] =
                           IF "currency" \in DOMAIN d THEN d["currency"] ELSE EmptyString

\* C10: the list call is issued at most once, the detail call of each offer
\* at most once, and a request that validation rejected or short-circuited
\* issues no upstream call.
C10_NothingRetried ==
    /\ listCalls <= 1
    /\ Len(det) <= Len(offers)
    /\ \A i \in 1..Len(det) : det[i].calls <= 1
    /\ (pc = "done" /\ response.kind = "none") => (listCalls = 0 /\ det = <<>>)
    /\ (pc = "done" /\ resStatus = 400) => response.kind = "none"
    /\ (pc = "done" /\ resStatus = 200 /\ "message" \in DOMAIN resBody) =>
           response.kind = "none"

\* a lookup failed, the request completed, and the lookup was issued once
C10_Witness ==
    /\ SuccessSent
    /\ Len(offers) = 2
    /\ det[1].outcome = "timeout"
    /\ det[2].outcome = "malformed"
    /\ det[1].calls = 1

====
